---------------------------- MODULE Spec2Model ----------------------------
(***************************************************************************)
(* kubemacpool admission webhooks: the pod annotator (pkg/webhook/pod) and *)
(* the virtual machine annotator (pkg/webhook/virtualmachine).             *)
(*                                                                         *)
(* A worker handles one admission request.  The steps of a handler are the *)
(* stretches of code between its blocking collaborator calls (the client's *)
(* Get and the pool manager's allocation methods).                         *)
(*                                                                         *)
(* Go values are represented as follows.                                   *)
(*   string              a TLA+ string                                     *)
(*   []T                 [nil : BOOLEAN, elems : Seq(T)]  (nil /= empty)   *)
(*   map[string]string   [nil : BOOLEAN, kv : function on the keys set]    *)
(*   *metav1.Time        BOOLEAN (TRUE: the pointer is not nil)            *)
(*   JSON document       [type, str, arr, key]  (see JNull .. JObject)     *)
(* virtualMachine.Spec.Template.Spec.Domain.Devices.Interfaces is written  *)
(* Spec.Interfaces; every other field of the spec is Spec.Running.         *)
(***************************************************************************)
EXTENDS Naturals, Sequences, FiniteSets, TLC

(***************************************************************************)
(* Bounds of the model.                                                    *)
(***************************************************************************)
\* longest interface list of an incoming or persisted virtual machine
MaxIfaces == 2
\* longest finalizer list of an incoming virtual machine
MaxFinalizers == 2

(***************************************************************************)
(* Names exported by pkg/pool-manager and used by the webhooks.            *)
(***************************************************************************)
TransactionTimestampAnnotation == "kubemacpool.io/transaction-timestamp"
RuntimeObjectFinalizerName == "k8s.v1.cni.cncf.io/kubeMacPool"
NetworksAnnotation == "k8s.v1.cni.cncf.io/networks"

(***************************************************************************)
(* Go slices and maps.                                                     *)
(***************************************************************************)
NilSlice == [nil |-> TRUE, elems |-> <<>>]
Slice(s) == [nil |-> FALSE, elems |-> s]
\* append(s, x): the result is never nil
Append_(s, x) == [nil |-> FALSE, elems |-> Append(s.elems, x)]

EmptyKV == [k \in {} |-> ""]
NilMap == [nil |-> TRUE, kv |-> EmptyKV]
Map(kv) == [nil |-> FALSE, kv |-> kv]
\* m[k] of a Go map: the zero value "" when the key is missing (or m is nil)
MapGet(m, k) == IF k \in DOMAIN m.kv THEN m.kv[k] ELSE ""
\* m[k] = v on a non-nil map
MapSet(m, k, v) ==
    [nil |-> FALSE,
     kv  |-> [x \in (DOMAIN m.kv) \cup {k} |-> IF x = k THEN v ELSE m.kv[x]]]

(***************************************************************************)
(* helper.ContainsString(slice, s)                                         *)
(***************************************************************************)
ContainsString(slice, s) == \E i \in 1..Len(slice.elems) : slice.elems[i] = s

(***************************************************************************)
(* JSON documents, as json.Marshal writes them and json.Unmarshal reads    *)
(* them into interface{}.                                                  *)
(***************************************************************************)
JNull == [type |-> "null", str |-> "", arr |-> <<>>, key |-> ""]
JString(s) == [type |-> "string", str |-> s, arr |-> <<>>, key |-> ""]
JArray(a) == [type |-> "array", str |-> "", arr |-> a, key |-> ""]
\* the one-member object map[string]string{k: v}
JObject(k, v) == [type |-> "object", str |-> v, arr |-> <<>>, key |-> k]

\* json.Marshal of a Go string
MarshalString(s) == JString(s)
\* json.Marshal of a []string: a nil slice is written null, an empty one []
MarshalSlice(s) == IF s.nil THEN JNull ELSE JArray(s.elems)

(***************************************************************************)
(* jsonpatch.Operation and jsonpatch.NewPatch                              *)
(***************************************************************************)
NewPatch(operation, path, value) ==
    [Operation |-> operation, Path |-> path, Value |-> value]

\* makePath of the jsonpatch library: the pointer of element i (from 0)
makePath(p, i) == p \o "/" \o ToString(i)

Min(a, b) == IF a < b THEN a ELSE b

(***************************************************************************)
(* jsonpatch.CreatePatch(a, b) on the documents the webhook gives it: a    *)
(* string, an array of strings or null at the root.  Equal documents give  *)
(* no operation; a value that appears where null was is added; a change of *)
(* type replaces the root; two strings that differ replace the root; two   *)
(* arrays are compared by position: the surplus of the original is removed *)
(* from the end, the surplus of the current one is added, and the common   *)
(* positions that differ are replaced.                                     *)
(***************************************************************************)
CreatePatch(a, b) ==
    IF a = b THEN <<>>
    ELSE IF a.type = "null" THEN <<NewPatch("add", "", b)>>
    ELSE IF a.type # b.type THEN <<NewPatch("replace", "", b)>>
    ELSE IF a.type = "string" THEN <<NewPatch("replace", "", b)>>
    ELSE
        LET la == Len(a.arr)
            lb == Len(b.arr)
            n  == Min(la, lb)
            removes == [k \in 1..(la - n) |->
                          NewPatch("remove", makePath("", la - k), JNull)]
            adds == [k \in 1..(lb - n) |->
                          NewPatch("add", makePath("", n + k - 1),
                                   JString(b.arr[n + k]))]
            differ == SelectSeq([i \in 1..n |-> i],
                                LAMBDA i : a.arr[i] # b.arr[i])
            replaces == [k \in 1..Len(differ) |->
                          NewPatch("replace", makePath("", differ[k] - 1),
                                   JString(b.arr[differ[k]]))]
        IN  removes \o adds \o replaces

(***************************************************************************)
(* patchChange: the operations of CreatePatch, every path rewritten to     *)
(* pathChange.  The two values arrive marshalled (json.Marshal, lines      *)
(* 137-138, is MarshalString or MarshalSlice at the call).                 *)
(***************************************************************************)
\* a variant that leaves the paths as CreatePatch wrote them
patchChange_PathNotRewritten(pathChange, marshaledOriginal, marshaledCurrent) ==
    CreatePatch(marshaledOriginal, marshaledCurrent)

patchChange(pathChange, marshaledOriginal, marshaledCurrent) ==
    LET patches == CreatePatch(marshaledOriginal, marshaledCurrent)
    IN  [idx \in 1..Len(patches) |->
            [patches[idx] EXCEPT !.Path = pathChange]]

(***************************************************************************)
(* admission.Response: admission.Errored(code, err) allows nothing and     *)
(* carries no patch; the response of patchVMChanges and patchPodChanges    *)
(* is allowed and carries the patches (its Result, and so its code, unset).*)
(***************************************************************************)
StatusBadRequest == 400
StatusInternalServerError == 500
StatusUnset == 0

Errored(code) == [Allowed |-> FALSE, Code |-> code, Patches |-> <<>>]
PatchResponse(patches) ==
    [Allowed |-> TRUE, Code |-> StatusUnset, Patches |-> patches]

(***************************************************************************)
(* pkg/pool-manager, as the webhooks use it.                               *)
(***************************************************************************)
\* the deletion timestamp of the object is set
IsVirtualMachineDeletionInProgress(vm) == vm.DeletionTimestamp

\* the annotation value of a transaction timestamp (its RFC 3339 text)
FormatTimestamp(ts) == "ts-" \o ToString(ts)

\* writes the timestamp into the reserved annotation of the object
SetTransactionTimestampAnnotationToVm(vm, ts) ==
    [vm EXCEPT !.Annotations =
        MapSet(@, TransactionTimestampAnnotation, FormatTimestamp(ts))]

\* the address the pool hands to interface number i of an object
PoolMac(i) == "02:00:00:00:00:0" \o ToString(i)

\* vm with the pool's address on the interfaces whose number is in S
WithPoolMacs(vm, S) ==
    [vm EXCEPT !.Spec.Interfaces.elems =
        [i \in 1..Len(@) |->
            IF i \in S THEN [@[i] EXCEPT !.MacAddress = PoolMac(i)]
                       ELSE @[i]]]

\* a variant in which a successful call may also add an interface
AllocatorSuccessOutcomes_AddsInterface(vm) ==
    {WithPoolMacs(vm, S) : S \in SUBSET (1..Len(vm.Spec.Interfaces.elems))}
    \cup {[vm EXCEPT !.Spec.Interfaces =
              Append_(@, [MacAddress |-> PoolMac(Len(@.elems) + 1)])]}

\* What a successful AllocateVirtualMachineMac or
\* UpdateMacAddressesForVirtualMachine may leave in the object it was
\* given: addresses on any of its interfaces; nothing else is touched.
AllocatorSuccessOutcomes(vm) ==
    {WithPoolMacs(vm, S) : S \in SUBSET (1..Len(vm.Spec.Interfaces.elems))}

\* What a failed call may leave: the interfaces before the one it failed on
\* already carry their addresses.
AllocatorFailureOutcomes(vm) ==
    {WithPoolMacs(vm, 1..k) : k \in 0..Len(vm.Spec.Interfaces.elems)}

\* What AllocatePodMac may leave in the pod: the networks annotation
\* rewritten with the allocated addresses, or the pod as it was.
AllocatedNetworks == "[{name: net, mac: 02:00:00:00:00:01}]"
AllocatePodMacOutcomes(pod) ==
    {pod,
     [pod EXCEPT !.Annotations =
         MapSet(@, NetworksAnnotation, AllocatedNetworks)]}

(***************************************************************************)
(* addFinalizer                                                            *)
(***************************************************************************)
\* a variant that appends the token whatever the list holds
addFinalizer_Always(virtualMachine) ==
    [virtualMachine EXCEPT
        !.Finalizers = Append_(@, RuntimeObjectFinalizerName)]

\* a variant that puts the token in front of the list
addFinalizer_First(virtualMachine) ==
    IF ContainsString(virtualMachine.Finalizers, RuntimeObjectFinalizerName)
    THEN virtualMachine
    ELSE [virtualMachine EXCEPT
            !.Finalizers = Slice(<<RuntimeObjectFinalizerName>> \o @.elems)]

\* a variant that never writes the list
addFinalizer_Never(virtualMachine) == virtualMachine

addFinalizer(virtualMachine) ==
    IF ContainsString(virtualMachine.Finalizers, RuntimeObjectFinalizerName)
    THEN virtualMachine
    ELSE [virtualMachine EXCEPT
            !.Finalizers = Append_(@, RuntimeObjectFinalizerName)]

(***************************************************************************)
(* isVirtualMachineSpecChanged, isVirtualMachineInterfacesChanged:         *)
(* reflect.DeepEqual, which tells a nil slice from an empty one.           *)
(***************************************************************************)
\* a variant that compares the whole objects, metadata included
isVirtualMachineSpecChanged_WholeObject(previousVirtualMachine, virtualMachine) ==
    previousVirtualMachine # virtualMachine

isVirtualMachineSpecChanged(previousVirtualMachine, virtualMachine) ==
    previousVirtualMachine.Spec # virtualMachine.Spec

\* a variant that compares the whole specs
isVirtualMachineInterfacesChanged_WholeSpec(previousVirtualMachine, virtualMachine) ==
    previousVirtualMachine.Spec # virtualMachine.Spec

isVirtualMachineInterfacesChanged(previousVirtualMachine, virtualMachine) ==
    previousVirtualMachine.Spec.Interfaces # virtualMachine.Spec.Interfaces

(***************************************************************************)
(* patchVMChanges                                                          *)
(***************************************************************************)
AnnotationsPath == "/metadata/annotations"
FinalizersPath == "/metadata/finalizers"
\* fmt.Sprintf(".../interfaces/%d/macAddress", ifaceIdx), ifaceIdx from 0
InterfacePath(ifaceIdx) ==
    "/spec/template/spec/domain/devices/interfaces/"
        \o ToString(ifaceIdx) \o "/macAddress"

\* the loop of lines 111-117 over the first n interfaces of the current
\* object (the original's list is indexed by the current one's indices)
RECURSIVE InterfacePatches(_, _, _)
InterfacePatches(originalVirtualMachine, currentVirtualMachine, n) ==
    IF n = 0 THEN <<>>
    ELSE InterfacePatches(originalVirtualMachine, currentVirtualMachine, n - 1)
         \o patchChange(InterfacePath(n - 1),
              MarshalString(
                originalVirtualMachine.Spec.Interfaces.elems[n].MacAddress),
              MarshalString(
                currentVirtualMachine.Spec.Interfaces.elems[n].MacAddress))

\* the index expression of line 112 is out of range: the handler panics
patchVMChangesPanics(originalVirtualMachine, currentVirtualMachine) ==
    /\ ~IsVirtualMachineDeletionInProgress(currentVirtualMachine)
    /\ Len(originalVirtualMachine.Spec.Interfaces.elems)
         < Len(currentVirtualMachine.Spec.Interfaces.elems)

\* a variant that compares the whole annotation maps, not the reserved key
VMPatches_AnnotationsCompared(originalVirtualMachine, currentVirtualMachine) ==
    LET transactionTimestampAnnotationPatch ==
            IF originalVirtualMachine.Annotations
                 # currentVirtualMachine.Annotations
            THEN <<NewPatch("add", AnnotationsPath,
                            JObject(TransactionTimestampAnnotation,
                                    MapGet(currentVirtualMachine.Annotations,
                                           TransactionTimestampAnnotation)))>>
            ELSE <<>>
    IN  transactionTimestampAnnotationPatch
            \o InterfacePatches(originalVirtualMachine, currentVirtualMachine,
                   Len(currentVirtualMachine.Spec.Interfaces.elems))
            \o patchChange(FinalizersPath,
                   MarshalSlice(originalVirtualMachine.Finalizers),
                   MarshalSlice(currentVirtualMachine.Finalizers))

\* a variant that gathers the finalizer operations first
VMPatches_FinalizersFirst(originalVirtualMachine, currentVirtualMachine) ==
    LET currentTransactionTSString ==
            MapGet(currentVirtualMachine.Annotations,
                   TransactionTimestampAnnotation)
    IN  patchChange(FinalizersPath,
                    MarshalSlice(originalVirtualMachine.Finalizers),
                    MarshalSlice(currentVirtualMachine.Finalizers))
        \o (IF MapGet(originalVirtualMachine.Annotations,
                      TransactionTimestampAnnotation)
                # currentTransactionTSString
            THEN <<NewPatch("add", AnnotationsPath,
                            JObject(TransactionTimestampAnnotation,
                                    currentTransactionTSString))>>
            ELSE <<>>)
        \o InterfacePatches(originalVirtualMachine, currentVirtualMachine,
               Len(currentVirtualMachine.Spec.Interfaces.elems))

\* lines 104-123: the operations gathered when no deletion is in progress
VMPatches(originalVirtualMachine, currentVirtualMachine) ==
    LET originalTransactionTSString ==
            MapGet(originalVirtualMachine.Annotations,
                   TransactionTimestampAnnotation)
        currentTransactionTSString ==
            MapGet(currentVirtualMachine.Annotations,
                   TransactionTimestampAnnotation)
        transactionTimestampAnnotationPatch ==
            IF originalTransactionTSString # currentTransactionTSString
            THEN <<NewPatch("add", AnnotationsPath,
                            JObject(TransactionTimestampAnnotation,
                                    currentTransactionTSString))>>
            ELSE <<>>
        interfacePatches ==
            InterfacePatches(originalVirtualMachine, currentVirtualMachine,
                Len(currentVirtualMachine.Spec.Interfaces.elems))
        finalizerPatches ==
            patchChange(FinalizersPath,
                        MarshalSlice(originalVirtualMachine.Finalizers),
                        MarshalSlice(currentVirtualMachine.Finalizers))
    IN  transactionTimestampAnnotationPatch
            \o interfacePatches \o finalizerPatches

\* a variant that gathers the operations whatever the deletion timestamp
patchVMChanges_NoDeletionGuard(originalVirtualMachine, currentVirtualMachine) ==
    PatchResponse(VMPatches(originalVirtualMachine, currentVirtualMachine))

patchVMChanges(originalVirtualMachine, currentVirtualMachine) ==
    LET kubemapcoolJsonPatches ==
            IF ~IsVirtualMachineDeletionInProgress(currentVirtualMachine)
            THEN VMPatches(originalVirtualMachine, currentVirtualMachine)
            ELSE <<>>
    IN  PatchResponse(kubemapcoolJsonPatches)

(***************************************************************************)
(* patchPodChanges                                                         *)
(***************************************************************************)
\* a variant whose operation carries the value the original pod had
patchPodChanges_OriginalValue(originalPod, currentPod) ==
    LET currentNetworkAnnotation ==
            MapGet(currentPod.Annotations, NetworksAnnotation)
        originalPodNetworkAnnotation ==
            MapGet(originalPod.Annotations, NetworksAnnotation)
    IN  PatchResponse(
            IF originalPodNetworkAnnotation # currentNetworkAnnotation
            THEN <<NewPatch("add", AnnotationsPath,
                            JObject(NetworksAnnotation,
                                    originalPodNetworkAnnotation))>>
            ELSE <<>>)

patchPodChanges(originalPod, currentPod) ==
    LET currentNetworkAnnotation ==
            MapGet(currentPod.Annotations, NetworksAnnotation)
        originalPodNetworkAnnotation ==
            MapGet(originalPod.Annotations, NetworksAnnotation)
        kubemapcoolJsonPatches ==
            IF originalPodNetworkAnnotation # currentNetworkAnnotation
            THEN <<NewPatch("add", AnnotationsPath,
                            JObject(NetworksAnnotation,
                                    currentNetworkAnnotation))>>
            ELSE <<>>
    IN  PatchResponse(kubemapcoolJsonPatches)

(***************************************************************************)
(* The requests the transport delivers.                                    *)
(***************************************************************************)
SeqsUpTo(S, n) == UNION {[1..k -> S] : k \in 0..n}

\* an address the caller wrote into the object
UserMac == "02:00:00:00:00:aa"
\* an annotation and a finalizer of the caller's own
OtherAnnotation == "example.com/owner"
OtherFinalizer == "example.com/protect"
\* a networks annotation as the caller wrote it
RequestedNetworks == "[{name: net}]"
\* the reserved annotation as an earlier request stamped it
OldTimestamp == FormatTimestamp(0)

RequestNamespace == "default"
Operations == {"CREATE", "UPDATE", "DELETE", "CONNECT"}

InterfaceLists ==
    {NilSlice} \cup
    {Slice(s) : s \in SeqsUpTo([MacAddress : {"", UserMac}], MaxIfaces)}

\* the specs the API server may hold, and those a request may carry (the
\* rest of the spec, Running, is told apart on the persisted side)
VMSpecs == [Running : BOOLEAN, Interfaces : InterfaceLists]
IncomingVMSpecs == [Running : {FALSE}, Interfaces : InterfaceLists]

FinalizerLists ==
    {NilSlice} \cup
    {Slice(s) : s \in SeqsUpTo({RuntimeObjectFinalizerName, OtherFinalizer},
                               MaxFinalizers)}

\* the maps with some, but not none, of the keys K, the key k carrying
\* val[k]
MapsOver(K, val) == {Map([k \in D |-> val[k]]) : D \in (SUBSET K) \ {{}}}

VMAnnotationMaps ==
    {NilMap} \cup
    MapsOver({TransactionTimestampAnnotation, OtherAnnotation},
             [k \in {TransactionTimestampAnnotation, OtherAnnotation} |->
                IF k = OtherAnnotation THEN "me" ELSE OldTimestamp])

VMObjects ==
    [Name : {"vm"}, Namespace : {"", RequestNamespace},
     Annotations : VMAnnotationMaps, DeletionTimestamp : BOOLEAN,
     Finalizers : FinalizerLists, Spec : IncomingVMSpecs]

\* the versions of the object the API server may hold: stamped and guarded
\* by the create webhook, with any spec
PersistedVMs ==
    [Name : {"vm"}, Namespace : {RequestNamespace},
     Annotations :
        {Map([k \in {TransactionTimestampAnnotation} |-> OldTimestamp])},
     DeletionTimestamp : {FALSE},
     Finalizers : {Slice(<<RuntimeObjectFinalizerName>>)},
     Spec : VMSpecs]

PodAnnotationMaps ==
    {NilMap} \cup
    MapsOver({NetworksAnnotation, OtherAnnotation},
             [k \in {NetworksAnnotation, OtherAnnotation} |->
                IF k = OtherAnnotation THEN "me" ELSE RequestedNetworks])

PodObjects ==
    [Name : {"pod"}, Namespace : {RequestNamespace},
     Annotations : PodAnnotationMaps]

\* a.decoder.Decode succeeded (Decodable) or not
VMRequests ==
    [Kind : {"VirtualMachine"}, Operation : Operations,
     Namespace : {RequestNamespace}, Decodable : {TRUE}, Object : VMObjects]
    \cup
    [Kind : {"VirtualMachine"}, Operation : Operations,
     Namespace : {RequestNamespace}, Decodable : {FALSE},
     Object : {CHOOSE o \in VMObjects :
                 /\ o.Annotations = NilMap /\ o.Finalizers = NilSlice
                 /\ o.Spec.Interfaces = NilSlice /\ ~o.Spec.Running
                 /\ ~o.DeletionTimestamp /\ o.Namespace = ""}]

PodRequests ==
    [Kind : {"Pod"}, Operation : {"CREATE"}, Namespace : {RequestNamespace},
     Decodable : BOOLEAN, Object : PodObjects]

\* the results of a.client.Get
GetResults ==
    {[err |-> "NotFound"], [err |-> "Other"]}
    \cup {[err |-> "nil", object |-> p] : p \in PersistedVMs}

(***************************************************************************)
(* State.  Every variable but clock is a function of the worker.           *)
(***************************************************************************)
VARIABLES
    pc,                       \* where the worker's handler stands
    req,                      \* the admission.Request it was given
    virtualMachine,           \* Handle's working copy
    originalVirtualMachine,   \* the DeepCopy taken before any mutation
    previousVirtualMachine,   \* what Get returned to the update function
    pod,                      \* podAnnotator.Handle's working copy
    originalPod,              \* its DeepCopy
    transactionTimestamp,     \* the handler's CreateTransactionTimestamp()
    getResult,                \* the outcome of the handler's Get
    resp,                     \* the admission.Response returned
    log,                      \* the handler's stamps, Gets, allocator
                              \* calls ("failed" after one that failed)
                              \* and finalizer guard runs, in order
    clock                     \* the wall clock

vars == <<pc, req, virtualMachine, originalVirtualMachine,
          previousVirtualMachine, pod, originalPod, transactionTimestamp,
          getResult, resp, log, clock>>

\* a variable that holds nothing yet
Unset == [unset |-> TRUE]
NoTimestamp == 0
FirstTick == 1

\* no request received, no collaborator called, nothing returned
InitCalls(W) ==
    /\ req = [w \in W |-> Unset]
    /\ previousVirtualMachine = [w \in W |-> Unset]
    /\ pod = [w \in W |-> Unset]
    /\ originalPod = [w \in W |-> Unset]
    /\ transactionTimestamp = [w \in W |-> NoTimestamp]
    /\ getResult = [w \in W |-> "none"]
    /\ resp = [w \in W |-> Unset]
    /\ log = [w \in W |-> <<>>]
    /\ clock = FirstTick

Init ==
    /\ InitCalls({"w1"})
    /\ pc = [w \in {"w1"} |-> "idle"]
    /\ virtualMachine = [w \in {"w1"} |-> Unset]
    /\ originalVirtualMachine = [w \in {"w1"} |-> Unset]

(***************************************************************************)
(* virtualMachineAnnotator.Handle                                          *)
(***************************************************************************)
\* lines 66-76: the working copy Handle goes on with, its annotations map
\* made and its namespace defaulted from the request
HandleWorkingCopy(request) ==
    LET decoded == request.Object
        annotated == IF decoded.Annotations.nil
                     THEN [decoded EXCEPT !.Annotations = Map(EmptyKV)]
                     ELSE decoded
    IN  IF annotated.Namespace = ""
        THEN [annotated EXCEPT !.Namespace = request.Namespace]
        ELSE annotated

\* a variant that builds the patches whatever the mutate function returned
HandleReturn_IgnoresError(err, original, currentVirtualMachine) ==
    patchVMChanges(original, currentVirtualMachine)

\* lines 82-95: what Handle returns once the mutate function returned err
\* (TRUE: an error) and left currentVirtualMachine
HandleReturn(err, original, currentVirtualMachine) ==
    IF err THEN Errored(StatusInternalServerError)
    ELSE patchVMChanges(original, currentVirtualMachine)

\* the handler of worker w returns, its snapshot being original and its
\* working copy vm
Return(w, err, original, vm) ==
    /\ virtualMachine' = [virtualMachine EXCEPT ![w] = vm]
    /\ IF ~err /\ patchVMChangesPanics(original, vm)
       THEN /\ pc' = [pc EXCEPT ![w] = "panic"]
            /\ resp' = resp
       ELSE /\ pc' = [pc EXCEPT ![w] = "done"]
            /\ resp' = [resp EXCEPT ![w] =
                          HandleReturn(err, original, vm)]

\* lines 60-65: the request does not decode
HandleDecodeError(w) ==
    /\ pc[w] = "idle"
    /\ \E r \in VMRequests :
         /\ ~r.Decodable
         /\ req' = [req EXCEPT ![w] = r]
    /\ resp' = [resp EXCEPT ![w] = Errored(StatusBadRequest)]
    /\ pc' = [pc EXCEPT ![w] = "done"]
    /\ UNCHANGED <<virtualMachine, originalVirtualMachine,
                   previousVirtualMachine, pod, originalPod,
                   transactionTimestamp, getResult, log, clock>>

\* lines 60-81 and 152-158: a Create request; the timestamp is taken and
\* written into the working copy, then the object is looked up
HandleCreate(w) ==
    /\ pc[w] = "idle"
    /\ \E r \in VMRequests :
         /\ r.Decodable /\ r.Operation = "CREATE"
         /\ req' = [req EXCEPT ![w] = r]
         /\ originalVirtualMachine' =
              [originalVirtualMachine EXCEPT ![w] = r.Object]
         /\ virtualMachine' = [virtualMachine EXCEPT ![w] =
              SetTransactionTimestampAnnotationToVm(HandleWorkingCopy(r),
                                                    clock)]
    /\ transactionTimestamp' = [transactionTimestamp EXCEPT ![w] = clock]
    /\ clock' = clock + 1
    /\ log' = [log EXCEPT ![w] = Append(@, "Stamp")]
    /\ pc' = [pc EXCEPT ![w] = "createGet"]
    /\ UNCHANGED <<previousVirtualMachine, pod, originalPod, getResult, resp>>

\* lines 60-87 and 184-187: an Update request; the object is looked up
HandleUpdate(w) ==
    /\ pc[w] = "idle"
    /\ \E r \in VMRequests :
         /\ r.Decodable /\ r.Operation = "UPDATE"
         /\ req' = [req EXCEPT ![w] = r]
         /\ originalVirtualMachine' =
              [originalVirtualMachine EXCEPT ![w] = r.Object]
         /\ virtualMachine' =
              [virtualMachine EXCEPT ![w] = HandleWorkingCopy(r)]
    /\ pc' = [pc EXCEPT ![w] = "updateGet"]
    /\ UNCHANGED <<previousVirtualMachine, pod, originalPod,
                   transactionTimestamp, getResult, resp, log, clock>>

\* a variant that takes every operation but Create for an Update
HandleOther_AsUpdate(w) ==
    /\ pc[w] = "idle"
    /\ \E r \in VMRequests :
         /\ r.Decodable /\ r.Operation \notin {"CREATE", "UPDATE"}
         /\ req' = [req EXCEPT ![w] = r]
         /\ originalVirtualMachine' =
              [originalVirtualMachine EXCEPT ![w] = r.Object]
         /\ virtualMachine' =
              [virtualMachine EXCEPT ![w] = HandleWorkingCopy(r)]
    /\ pc' = [pc EXCEPT ![w] = "updateGet"]
    /\ UNCHANGED <<previousVirtualMachine, pod, originalPod,
                   transactionTimestamp, getResult, resp, log, clock>>

\* lines 60-95: any other operation goes straight to patchVMChanges
HandleOther(w) ==
    /\ pc[w] = "idle"
    /\ \E r \in VMRequests :
         /\ r.Decodable /\ r.Operation \notin {"CREATE", "UPDATE"}
         /\ req' = [req EXCEPT ![w] = r]
         /\ originalVirtualMachine' =
              [originalVirtualMachine EXCEPT ![w] = r.Object]
         /\ Return(w, FALSE, r.Object, HandleWorkingCopy(r))
    /\ UNCHANGED <<previousVirtualMachine, pod, originalPod,
                   transactionTimestamp, getResult, log, clock>>

(***************************************************************************)
(* mutateCreateVirtualMachinesFn                                           *)
(***************************************************************************)
\* lines 159-179: what the function does with the result of Get:
\* "allocate" (line 164), "error" (line 174) or "nil" (line 179)
\* a variant that takes not-found for success, as the update function does
mutateCreateAfterGet_NotFoundIsNoOp(g, vm) ==
    IF g.err # "nil"
    THEN IF g.err = "NotFound" THEN "nil" ELSE "error"
    ELSE "nil"

mutateCreateAfterGet(g, vm) ==
    IF g.err # "nil"
    THEN IF g.err = "NotFound" /\ ~IsVirtualMachineDeletionInProgress(vm)
         THEN "allocate"
         ELSE "error"
    ELSE "nil"

\* line 158 returns
CreateGet(w) ==
    /\ pc[w] = "createGet"
    /\ \E g \in GetResults :
         /\ getResult' = [getResult EXCEPT ![w] = g.err]
         /\ LET next == mutateCreateAfterGet(g, virtualMachine[w])
            IN  IF next = "allocate"
                THEN /\ pc' = [pc EXCEPT ![w] = "allocateNew"]
                     /\ UNCHANGED <<virtualMachine, resp>>
                ELSE Return(w, next = "error", originalVirtualMachine[w],
                            virtualMachine[w])
    /\ log' = [log EXCEPT ![w] = Append(@, "Get")]
    /\ UNCHANGED <<req, originalVirtualMachine, previousVirtualMachine, pod,
                   originalPod, transactionTimestamp, clock>>

\* line 164 returns: on success the finalizer is added (line 169)
AllocateVirtualMachineMac(w) ==
    /\ pc[w] = "allocateNew"
    /\ \/ \E vm \in AllocatorSuccessOutcomes(virtualMachine[w]) :
            /\ Return(w, FALSE, originalVirtualMachine[w], addFinalizer(vm))
            /\ log' = [log EXCEPT ![w] =
                 @ \o <<"AllocateVirtualMachineMac", "addFinalizer">>]
       \/ \E vm \in AllocatorFailureOutcomes(virtualMachine[w]) :
            /\ Return(w, TRUE, originalVirtualMachine[w], vm)
            /\ log' = [log EXCEPT ![w] =
                 @ \o <<"AllocateVirtualMachineMac", "failed">>]
    /\ UNCHANGED <<req, originalVirtualMachine, previousVirtualMachine, pod,
                   originalPod, transactionTimestamp, getResult, clock>>

(***************************************************************************)
(* mutateUpdateVirtualMachinesFn                                           *)
(***************************************************************************)
\* lines 188-204: what the function does with the result of Get: "error"
\* (line 192), "nil" (lines 190 and 204, nothing written), "stamp" (line
\* 197, then line 204) or "reconcile" (line 197, then the call of line 200)
\* a variant that returns the error of Get also when it is not-found
mutateUpdateAfterGet_NotFoundIsError(g, vm) ==
    IF g.err # "nil"
    THEN "error"
    ELSE IF isVirtualMachineSpecChanged(g.object, vm)
         THEN IF isVirtualMachineInterfacesChanged(g.object, vm)
              THEN "reconcile"
              ELSE "stamp"
         ELSE "nil"

mutateUpdateAfterGet(g, vm) ==
    IF g.err # "nil"
    THEN IF g.err = "NotFound" THEN "nil" ELSE "error"
    ELSE IF isVirtualMachineSpecChanged(g.object, vm)
         THEN IF isVirtualMachineInterfacesChanged(g.object, vm)
              THEN "reconcile"
              ELSE "stamp"
         ELSE "nil"

\* line 187 returns
UpdateGet(w) ==
    /\ pc[w] = "updateGet"
    /\ \E g \in GetResults :
         LET next == mutateUpdateAfterGet(g, virtualMachine[w])
             stamped == SetTransactionTimestampAnnotationToVm(
                            virtualMachine[w], clock)
         IN  /\ getResult' = [getResult EXCEPT ![w] = g.err]
             /\ previousVirtualMachine' =
                  [previousVirtualMachine EXCEPT ![w] =
                     IF g.err = "nil" THEN g.object ELSE @]
             /\ IF next \in {"stamp", "reconcile"}
                THEN /\ transactionTimestamp' =
                          [transactionTimestamp EXCEPT ![w] = clock]
                     /\ clock' = clock + 1
                     /\ log' = [log EXCEPT ![w] = @ \o <<"Get", "Stamp">>]
                ELSE /\ log' = [log EXCEPT ![w] = Append(@, "Get")]
                     /\ UNCHANGED <<transactionTimestamp, clock>>
             /\ CASE next = "reconcile" ->
                       /\ virtualMachine' =
                            [virtualMachine EXCEPT ![w] = stamped]
                       /\ pc' = [pc EXCEPT ![w] = "reconcile"]
                       /\ resp' = resp
                  [] next = "stamp" ->
                       Return(w, FALSE, originalVirtualMachine[w], stamped)
                  [] OTHER -> Return(w, next = "error", originalVirtualMachine[w],
                            virtualMachine[w])
    /\ UNCHANGED <<req, originalVirtualMachine, pod, originalPod>>

\* line 200 returns
UpdateMacAddressesForVirtualMachine(w) ==
    /\ pc[w] = "reconcile"
    /\ \/ \E vm \in AllocatorSuccessOutcomes(virtualMachine[w]) :
            /\ Return(w, FALSE, originalVirtualMachine[w], vm)
            /\ log' = [log EXCEPT ![w] =
                 Append(@, "UpdateMacAddressesForVirtualMachine")]
       \/ \E vm \in AllocatorFailureOutcomes(virtualMachine[w]) :
            /\ Return(w, TRUE, originalVirtualMachine[w], vm)
            /\ log' = [log EXCEPT ![w] =
                 @ \o <<"UpdateMacAddressesForVirtualMachine", "failed">>]
    /\ UNCHANGED <<req, originalVirtualMachine, previousVirtualMachine, pod,
                   originalPod, transactionTimestamp, getResult, clock>>

(***************************************************************************)
(* podAnnotator.Handle                                                     *)
(***************************************************************************)
\* lines 52-67: the request is decoded, or not, and the pool is called
PodHandle(w) ==
    /\ pc[w] = "idle"
    /\ \E r \in PodRequests :
         /\ req' = [req EXCEPT ![w] = r]
         /\ IF ~r.Decodable
            THEN /\ resp' = [resp EXCEPT ![w] = Errored(StatusBadRequest)]
                 /\ pc' = [pc EXCEPT ![w] = "done"]
                 /\ UNCHANGED <<pod, originalPod, transactionTimestamp,
                                clock>>
            ELSE /\ originalPod' = [originalPod EXCEPT ![w] = r.Object]
                 /\ pod' = [pod EXCEPT ![w] =
                      IF r.Object.Annotations.nil
                      THEN [r.Object EXCEPT !.Annotations = Map(EmptyKV)]
                      ELSE r.Object]
                 /\ transactionTimestamp' =
                      [transactionTimestamp EXCEPT ![w] = clock]
                 /\ clock' = clock + 1
                 /\ pc' = [pc EXCEPT ![w] = "allocatePod"]
                 /\ resp' = resp
    /\ UNCHANGED <<virtualMachine, originalVirtualMachine,
                   previousVirtualMachine, getResult, log>>

\* lines 67-73: AllocatePodMac returns
AllocatePodMac(w) ==
    /\ pc[w] = "allocatePod"
    /\ \E p \in AllocatePodMacOutcomes(pod[w]), failed \in BOOLEAN :
         /\ pod' = [pod EXCEPT ![w] = p]
         /\ resp' = [resp EXCEPT ![w] =
              IF failed THEN Errored(StatusInternalServerError)
              ELSE patchPodChanges(originalPod[w], p)]
         /\ log' = [log EXCEPT ![w] =
              IF failed THEN @ \o <<"AllocatePodMac", "failed">>
              ELSE Append(@, "AllocatePodMac")]
    /\ pc' = [pc EXCEPT ![w] = "done"]
    /\ UNCHANGED <<req, virtualMachine, originalVirtualMachine,
                   previousVirtualMachine, originalPod,
                   transactionTimestamp, getResult, clock>>

(***************************************************************************)
(* The webhook server: every worker handles one request.                   *)
(***************************************************************************)
Workers == {"w1"}

Next ==
    \E w \in Workers :
        \/ HandleDecodeError(w)
        \/ HandleCreate(w)
        \/ HandleUpdate(w)
        \/ HandleOther(w)
        \/ CreateGet(w)
        \/ AllocateVirtualMachineMac(w)
        \/ UpdateGet(w)
        \/ UpdateMacAddressesForVirtualMachine(w)
        \/ PodHandle(w)
        \/ AllocatePodMac(w)

Spec == Init /\ [][Next]_vars

(***************************************************************************)
(* patchVMChanges on its own: called with any snapshot and working copy of *)
(* one object that carry interface lists of the same length.               *)
(***************************************************************************)
PatchObject(annotations, deletionTimestamp, finalizers, interfaces, other) ==
    [Name |-> "vm", Namespace |-> other.Namespace,
     Annotations |-> annotations, DeletionTimestamp |-> deletionTimestamp,
     Finalizers |-> finalizers,
     Spec |-> [Running |-> other.Running, Interfaces |-> interfaces]]

\* the fields patchVMChanges does not read, of a snapshot and of its
\* working copy: the same, or all of them different
OtherFieldPairs ==
    {<<[Namespace |-> RequestNamespace, Running |-> FALSE],
       [Namespace |-> RequestNamespace, Running |-> FALSE]>>,
     <<[Namespace |-> "", Running |-> FALSE],
       [Namespace |-> RequestNamespace, Running |-> TRUE]>>}

\* the annotations of a snapshot and of its working copy: the map made if
\* it was nil, and then left alone, stamped, or changed on another key
AnnotationPairs ==
    UNION {LET made == IF a.nil THEN Map(EmptyKV) ELSE a
           IN  {<<a, made>>,
                <<a, MapSet(made, TransactionTimestampAnnotation,
                            FormatTimestamp(FirstTick))>>,
                <<a, MapSet(made, OtherAnnotation, "you")>>}
           : a \in VMAnnotationMaps}

InterfacePairs ==
    {<<NilSlice, NilSlice>>} \cup
    UNION {{<<Slice(x), Slice(y)>> :
               x \in [1..k -> [MacAddress : {"", UserMac}]],
               y \in [1..k -> [MacAddress : {"", UserMac}]]}
           : k \in 0..MaxIfaces}

\* the annotations of a pod and of its working copy: the map made if it
\* was nil, and then left alone, given its addresses, or changed on
\* another key
PodAnnotationPairs ==
    UNION {LET made == IF a.nil THEN Map(EmptyKV) ELSE a
           IN  {<<a, made>>,
                <<a, MapSet(made, NetworksAnnotation, AllocatedNetworks)>>,
                <<a, MapSet(made, OtherAnnotation, "you")>>}
           : a \in PodAnnotationMaps}

InitPatch ==
    \/ /\ InitCalls({"w1"})
       /\ pc = [w \in {"w1"} |-> "patch"]
       /\ \E a \in AnnotationPairs, d \in BOOLEAN,
             f \in FinalizerLists \X FinalizerLists,
             i \in InterfacePairs, o \in OtherFieldPairs :
            /\ originalVirtualMachine =
                 [w \in {"w1"} |-> PatchObject(a[1], d, f[1], i[1], o[1])]
            /\ virtualMachine =
                 [w \in {"w1"} |-> PatchObject(a[2], d, f[2], i[2], o[2])]
    \/ /\ pc = [w \in {"w1"} |-> "patchPod"]
       /\ \E a \in PodAnnotationPairs :
            /\ originalPod =
                 [w \in {"w1"} |->
                    [Name |-> "pod", Namespace |-> RequestNamespace,
                     Annotations |-> a[1]]]
            /\ pod =
                 [w \in {"w1"} |->
                    [Name |-> "pod", Namespace |-> RequestNamespace,
                     Annotations |-> a[2]]]
       /\ req = [w \in {"w1"} |-> Unset]
       /\ virtualMachine = [w \in {"w1"} |-> Unset]
       /\ originalVirtualMachine = [w \in {"w1"} |-> Unset]
       /\ previousVirtualMachine = [w \in {"w1"} |-> Unset]
       /\ transactionTimestamp = [w \in {"w1"} |-> NoTimestamp]
       /\ getResult = [w \in {"w1"} |-> "none"]
       /\ resp = [w \in {"w1"} |-> Unset]
       /\ log = [w \in {"w1"} |-> <<>>]
       /\ clock = FirstTick

\* line 95, the call alone
PatchVMChanges(w) ==
    /\ pc[w] = "patch"
    /\ Return(w, FALSE, originalVirtualMachine[w], virtualMachine[w])
    /\ UNCHANGED <<req, originalVirtualMachine, previousVirtualMachine, pod,
                   originalPod, transactionTimestamp, getResult, log, clock>>

\* pod.go line 73, the call alone
PatchPodChanges(w) ==
    /\ pc[w] = "patchPod"
    /\ resp' = [resp EXCEPT ![w] = patchPodChanges(originalPod[w], pod[w])]
    /\ pc' = [pc EXCEPT ![w] = "done"]
    /\ UNCHANGED <<req, virtualMachine, originalVirtualMachine,
                   previousVirtualMachine, pod, originalPod,
                   transactionTimestamp, getResult, log, clock>>

NextPatch ==
    \E w \in Workers :
        \/ PatchVMChanges(w)
        \/ PatchPodChanges(w)

SpecPatch == InitPatch /\ [][NextPatch]_vars

(***************************************************************************)
(* addFinalizer on its own: run twice in a row on one object, whatever its *)
(* finalizer list is.                                                      *)
(***************************************************************************)
InitGuard ==
    /\ InitCalls({"w1"})
    /\ pc = [w \in {"w1"} |-> "guard"]
    /\ \E vm \in VMObjects :
         /\ originalVirtualMachine = [w \in {"w1"} |-> vm]
         /\ virtualMachine = [w \in {"w1"} |-> vm]

\* lines 231-242, the call alone: the first run, then the second
AddFinalizer(w) ==
    /\ pc[w] \in {"guard", "guardAgain"}
    /\ virtualMachine' =
         [virtualMachine EXCEPT ![w] = addFinalizer(virtualMachine[w])]
    /\ log' = [log EXCEPT ![w] = Append(@, "addFinalizer")]
    /\ pc' = [pc EXCEPT ![w] =
                IF pc[w] = "guard" THEN "guardAgain" ELSE "guarded"]
    /\ UNCHANGED <<req, originalVirtualMachine, previousVirtualMachine, pod,
                   originalPod, transactionTimestamp, getResult, resp, clock>>

NextGuard == \E w \in Workers : AddFinalizer(w)

SpecGuard == InitGuard /\ [][NextGuard]_vars

(***************************************************************************)
(* Two workers, each handling a Create request for the same object.  The   *)
(* handlers share nothing but the clock; the object store answers each Get *)
(* on its own (nothing is persisted before admission ends).                *)
(***************************************************************************)
TwoWorkers == {"w1", "w2"}

\* Create requests for default/vm with one interface
ConcurrentRequests ==
    {r \in VMRequests :
        /\ r.Decodable
        /\ r.Operation = "CREATE"
        /\ r.Object.Namespace = RequestNamespace
        /\ r.Object.Annotations.nil
        /\ r.Object.Finalizers.nil
        /\ Len(r.Object.Spec.Interfaces.elems) = 1}

InitTwo ==
    /\ InitCalls(TwoWorkers)
    /\ pc = [w \in TwoWorkers |-> "idle"]
    /\ virtualMachine = [w \in TwoWorkers |-> Unset]
    /\ originalVirtualMachine = [w \in TwoWorkers |-> Unset]

NextTwo ==
    \E w \in TwoWorkers :
        \/ HandleCreate(w) /\ req'[w] \in ConcurrentRequests
        \/ CreateGet(w)
        \/ AllocateVirtualMachineMac(w)

SpecTwo == InitTwo /\ [][NextTwo]_vars

(***************************************************************************)
(* What the properties below read from a state.                            *)
(***************************************************************************)
Count(s, e) == Cardinality({i \in 1..Len(s) : s[i] = e})

AllocatorMethods ==
    {"AllocateVirtualMachineMac", "UpdateMacAddressesForVirtualMachine",
     "AllocatePodMac"}
\* the number of allocator calls of worker w's handler
AllocatorCalls(w) ==
    Cardinality({i \in 1..Len(log[w]) : log[w][i] \in AllocatorMethods})
\* the number of timestamps it wrote
Stamps(w) == Count(log[w], "Stamp")
\* one of its allocator calls failed
AllocatorFailed(w) == Count(log[w], "failed") > 0

\* the handler of w returned from a decoded virtual machine request of
\* operation op
ReturnedVM(w, op) ==
    /\ pc[w] = "done"
    /\ req[w].Kind = "VirtualMachine"
    /\ req[w].Decodable
    /\ req[w].Operation = op

\* patchVMChanges, called alone, returned to w
PatchedVM(w) == pc[w] = "done" /\ pod[w] = Unset
\* patchPodChanges, called alone, returned to w
PatchedPod(w) == pc[w] = "done" /\ pod[w] # Unset

\* the reserved annotation of an object
TimestampOf(vm) == MapGet(vm.Annotations, TransactionTimestampAnnotation)

\* the patches at a path, and at the address of some interface
PatchesAt(patches, path) ==
    {i \in 1..Len(patches) : patches[i].Path = path}
InterfacePatchesOf(patches) ==
    {i \in 1..Len(patches) :
        patches[i].Path \notin {AnnotationsPath, FinalizersPath}}

(***************************************************************************)
(* C1.  A Create request for a virtual machine that Get finds makes no     *)
(* allocator call and is answered with an allowed response whose patch     *)
(* list is empty.  (The handler writes the timestamp before it looks the   *)
(* object up, so the response carries the annotation patch.)               *)
(***************************************************************************)
C1_CreateExistingNoPatch ==
    \A w \in DOMAIN pc :
        (ReturnedVM(w, "CREATE") /\ getResult[w] = "nil")
        => /\ AllocatorCalls(w) = 0
           /\ resp[w].Allowed
           /\ Len(resp[w].Patches) = 0

(***************************************************************************)
(* C2.  A Create request for a virtual machine that Get does not find and  *)
(* that carries a deletion timestamp is a no-op: no allocator call, no     *)
(* finalizer added, and an allowed response.  (The handler falls through   *)
(* to the return of line 174 and answers with an error.)                   *)
(***************************************************************************)
C2_CreateDeletingIsNoOp ==
    \A w \in DOMAIN pc :
        (/\ ReturnedVM(w, "CREATE")
         /\ getResult[w] = "NotFound"
         /\ req[w].Object.DeletionTimestamp)
        => /\ AllocatorCalls(w) = 0
           /\ virtualMachine[w].Finalizers = req[w].Object.Finalizers
           /\ resp[w].Allowed

(***************************************************************************)
(* C3.  Whenever an allocator call failed, or Get failed with an error     *)
(* other than not-found, the response is the server error and carries no   *)
(* patch, whatever was written to the working copy before.                 *)
(***************************************************************************)
C3_ErrorCarriesNoPatch ==
    \A w \in DOMAIN pc :
        (pc[w] = "done" /\ (AllocatorFailed(w) \/ getResult[w] = "Other"))
        => /\ ~resp[w].Allowed
           /\ resp[w].Code = StatusInternalServerError
           /\ Len(resp[w].Patches) = 0

\* an allocation failed after the timestamp and an address were written
C3_Witness ==
    \E w \in DOMAIN pc :
        /\ pc[w] = "done"
        /\ req[w].Kind = "VirtualMachine"
        /\ AllocatorFailed(w)
        /\ TimestampOf(virtualMachine[w])
             # TimestampOf(originalVirtualMachine[w])
        /\ virtualMachine[w].Spec.Interfaces
             # originalVirtualMachine[w].Spec.Interfaces
        /\ resp[w].Code = StatusInternalServerError
        /\ Len(resp[w].Patches) = 0

(***************************************************************************)
(* C4.  An Update request whose persisted version is found with a spec     *)
(* equal to the incoming one writes no timestamp, calls no allocator       *)
(* method and is answered with an allowed response whose patch list is     *)
(* empty, also when the metadata of the two versions differ.               *)
(***************************************************************************)
C4_UpdateSameSpecIsNoOp ==
    \A w \in DOMAIN pc :
        (/\ ReturnedVM(w, "UPDATE")
         /\ getResult[w] = "nil"
         /\ previousVirtualMachine[w].Spec = req[w].Object.Spec)
        => /\ Stamps(w) = 0
           /\ transactionTimestamp[w] = NoTimestamp
           /\ AllocatorCalls(w) = 0
           /\ resp[w].Allowed
           /\ Len(resp[w].Patches) = 0

\* the specs are equal, with an interface, and the finalizers and the
\* annotations of the two versions differ
C4_Witness ==
    \E w \in DOMAIN pc :
        /\ ReturnedVM(w, "UPDATE")
        /\ getResult[w] = "nil"
        /\ previousVirtualMachine[w].Spec = req[w].Object.Spec
        /\ Len(req[w].Object.Spec.Interfaces.elems) > 0
        /\ previousVirtualMachine[w].Finalizers # req[w].Object.Finalizers
        /\ previousVirtualMachine[w].Annotations # req[w].Object.Annotations
        /\ resp[w].Allowed
        /\ Len(resp[w].Patches) = 0

(***************************************************************************)
(* C5.  An Update request whose persisted version is found calls           *)
(* UpdateMacAddressesForVirtualMachine, once, exactly when the interface   *)
(* lists of the two versions differ, and calls no other allocator method;  *)
(* when the specs differ and the interface lists do not, it writes exactly *)
(* one fresh timestamp and calls no allocator method.                      *)
(***************************************************************************)
C5_ReconcileIffInterfacesChanged ==
    \A w \in DOMAIN pc :
        (ReturnedVM(w, "UPDATE") /\ getResult[w] = "nil")
        => LET interfacesChanged ==
                   previousVirtualMachine[w].Spec.Interfaces
                     # req[w].Object.Spec.Interfaces
               specChanged ==
                   previousVirtualMachine[w].Spec # req[w].Object.Spec
               calls == Count(log[w], "UpdateMacAddressesForVirtualMachine")
           IN  /\ calls = IF interfacesChanged THEN 1 ELSE 0
               /\ AllocatorCalls(w) = calls
               /\ (specChanged /\ ~interfacesChanged)
                  => /\ Stamps(w) = 1
                     /\ transactionTimestamp[w] # NoTimestamp
                     /\ TimestampOf(virtualMachine[w])
                          = FormatTimestamp(transactionTimestamp[w])
                     /\ TimestampOf(virtualMachine[w])
                          # TimestampOf(originalVirtualMachine[w])

\* the specs differ, the interface lists (with an interface) do not
C5_Witness ==
    \E w \in DOMAIN pc :
        /\ ReturnedVM(w, "UPDATE")
        /\ getResult[w] = "nil"
        /\ previousVirtualMachine[w].Spec # req[w].Object.Spec
        /\ previousVirtualMachine[w].Spec.Interfaces
             = req[w].Object.Spec.Interfaces
        /\ Len(req[w].Object.Spec.Interfaces.elems) > 0
        /\ Stamps(w) = 1
        /\ AllocatorCalls(w) = 0

(***************************************************************************)
(* C6.  An Update request for which Get returns not-found succeeds: no     *)
(* timestamp written, no allocator call, an allowed response with an empty *)
(* patch list.                                                             *)
(***************************************************************************)
C6_UpdateNotFoundSucceeds ==
    \A w \in DOMAIN pc :
        (ReturnedVM(w, "UPDATE") /\ getResult[w] = "NotFound")
        => /\ Stamps(w) = 0
           /\ transactionTimestamp[w] = NoTimestamp
           /\ AllocatorCalls(w) = 0
           /\ resp[w].Allowed
           /\ Len(resp[w].Patches) = 0

\* such a request, of an object with an interface and no annotations
C6_Witness ==
    \E w \in DOMAIN pc :
        /\ ReturnedVM(w, "UPDATE")
        /\ getResult[w] = "NotFound"
        /\ req[w].Object.Annotations.nil
        /\ Len(req[w].Object.Spec.Interfaces.elems) > 0
        /\ resp[w].Allowed
        /\ Len(resp[w].Patches) = 0

(***************************************************************************)
(* C7.  What a Create request that Get does not find, and that carries no  *)
(* deletion timestamp, has in common whether or not the incoming finalizer *)
(* list holds the reserved token: AllocateVirtualMachineMac is called      *)
(* exactly once, addFinalizer runs only right after that call succeeded,   *)
(* and in an allowed response the token is in the working copy's list.     *)
(***************************************************************************)
CreatesNew(w) ==
    /\ ReturnedVM(w, "CREATE")
    /\ getResult[w] = "NotFound"
    /\ ~req[w].Object.DeletionTimestamp

AllocatesThenGuards(w) ==
    /\ Count(log[w], "AllocateVirtualMachineMac") = 1
    /\ AllocatorCalls(w) = 1
    /\ \A i \in 1..Len(log[w]) :
          log[w][i] = "addFinalizer"
          => /\ i > 1
             /\ log[w][i - 1] = "AllocateVirtualMachineMac"
             /\ ~AllocatorFailed(w)
    /\ resp[w].Allowed
       => /\ Count(log[w], "addFinalizer") = 1
          /\ ContainsString(virtualMachine[w].Finalizers,
                            RuntimeObjectFinalizerName)

\* the add operations at the finalizers path
FinalizerAdds(patches) ==
    {i \in PatchesAt(patches, FinalizersPath) :
        patches[i].Operation = "add"}

(***************************************************************************)
(* C7 as claimed: moreover every allowed response to such a request        *)
(* carries an add operation at the finalizers path.                        *)
(***************************************************************************)
C7_CreateNewPatchesFinalizer ==
    \A w \in DOMAIN pc :
        CreatesNew(w)
        => /\ AllocatesThenGuards(w)
           /\ resp[w].Allowed => FinalizerAdds(resp[w].Patches) # {}

(***************************************************************************)
(* C7 as amended: an allowed response to such a request carries exactly    *)
(* one operation at the finalizers path, an add that brings the token,     *)
(* when the incoming list did not hold the token, and no operation at      *)
(* that path when it did; the working copy's list is the incoming one      *)
(* with the token appended in the first case, the incoming one in the      *)
(* second.  A failed allocation leaves the list alone.                     *)
(***************************************************************************)
C7_CreateNewPatchesFinalizerOnce ==
    \A w \in DOMAIN pc :
        CreatesNew(w)
        => LET incoming == req[w].Object.Finalizers
               held == \E i \in 1..Len(incoming.elems) :
                          incoming.elems[i] = RuntimeObjectFinalizerName
               at == PatchesAt(resp[w].Patches, FinalizersPath)
           IN  /\ AllocatesThenGuards(w)
               /\ (resp[w].Allowed /\ held)
                  => /\ at = {}
                     /\ virtualMachine[w].Finalizers = incoming
               /\ (resp[w].Allowed /\ ~held)
                  => /\ Cardinality(at) = 1
                     /\ at = FinalizerAdds(resp[w].Patches)
                     /\ \A i \in at :
                          resp[w].Patches[i].Value \in
                            {JString(RuntimeObjectFinalizerName),
                             JArray(<<RuntimeObjectFinalizerName>>)}
                     /\ virtualMachine[w].Finalizers.elems =
                          Append(incoming.elems, RuntimeObjectFinalizerName)
               /\ ~resp[w].Allowed
                  => /\ Count(log[w], "addFinalizer") = 0
                     /\ virtualMachine[w].Finalizers = incoming

\* the token is added behind a finalizer of the caller's and patched in
C7_Witness ==
    \E w \in DOMAIN pc :
        /\ CreatesNew(w)
        /\ resp[w].Allowed
        /\ req[w].Object.Finalizers = Slice(<<OtherFinalizer>>)
        /\ virtualMachine[w].Finalizers
             = Slice(<<OtherFinalizer, RuntimeObjectFinalizerName>>)
        /\ log[w] = <<"Stamp", "Get", "AllocateVirtualMachineMac",
                      "addFinalizer">>
        /\ FinalizerAdds(resp[w].Patches) # {}

(***************************************************************************)
(* C8.  An Update request without deletion timestamp whose persisted and   *)
(* incoming versions differ in the address of one interface only.          *)
(***************************************************************************)
\* the specs of previous and incoming differ in the address of interface
\* number i (from 1) and in nothing else
OnlyAddressDiffers(previous, incoming, i) ==
    /\ previous.Spec.Running = incoming.Spec.Running
    /\ ~previous.Spec.Interfaces.nil
    /\ ~incoming.Spec.Interfaces.nil
    /\ Len(previous.Spec.Interfaces.elems)
         = Len(incoming.Spec.Interfaces.elems)
    /\ i \in 1..Len(incoming.Spec.Interfaces.elems)
    /\ \A j \in 1..Len(incoming.Spec.Interfaces.elems) :
          (previous.Spec.Interfaces.elems[j]
             # incoming.Spec.Interfaces.elems[j]) <=> (j = i)

UpdatesOneAddress(w, i) ==
    /\ ReturnedVM(w, "UPDATE")
    /\ getResult[w] = "nil"
    /\ ~req[w].Object.DeletionTimestamp
    /\ OnlyAddressDiffers(previousVirtualMachine[w], req[w].Object, i)

\* the metadata of the two versions are the same
SameMetadata(previous, incoming) ==
    /\ previous.Namespace = incoming.Namespace
    /\ previous.Annotations = incoming.Annotations
    /\ previous.Finalizers = incoming.Finalizers
    /\ previous.DeletionTimestamp = incoming.DeletionTimestamp

\* the timestamp operation of worker w's response
TimestampPatch(w) ==
    NewPatch("add", AnnotationsPath,
             JObject(TransactionTimestampAnnotation,
                     FormatTimestamp(transactionTimestamp[w])))

(***************************************************************************)
(* C8 as claimed: UpdateMacAddressesForVirtualMachine is called and the    *)
(* allowed response carries exactly the timestamp operation and one        *)
(* replace operation at the address of that interface.                     *)
(***************************************************************************)
C8_OneAddressTwoPatches ==
    \A w \in DOMAIN pc :
        \A i \in 1..MaxIfaces :
            (/\ UpdatesOneAddress(w, i)
             /\ SameMetadata(previousVirtualMachine[w], req[w].Object)
             /\ resp[w].Allowed)
            => /\ Count(log[w], "UpdateMacAddressesForVirtualMachine") = 1
               /\ Len(resp[w].Patches) = 2
               /\ resp[w].Patches[1] = TimestampPatch(w)
               /\ resp[w].Patches[2].Operation = "replace"
               /\ resp[w].Patches[2].Path = InterfacePath(i - 1)

(***************************************************************************)
(* C8 as amended: UpdateMacAddressesForVirtualMachine is called exactly    *)
(* once; when it succeeds the response is allowed and carries exactly the  *)
(* timestamp operation followed, in ascending index, by one replace        *)
(* operation for each interface whose address the call changed in the      *)
(* working copy (so none for an address of the caller's that the call      *)
(* kept); when it fails the response is an error without patches.          *)
(***************************************************************************)
\* the interfaces (from 1) whose address differs between snapshot and copy
ChangedAddresses(original, current) ==
    SelectSeq([j \in 1..Len(current.Spec.Interfaces.elems) |-> j],
              LAMBDA j : original.Spec.Interfaces.elems[j].MacAddress
                           # current.Spec.Interfaces.elems[j].MacAddress)

C8_OneAddressPatchesWhatReconcileChanged ==
    \A w \in DOMAIN pc :
        \A i \in 1..MaxIfaces :
            UpdatesOneAddress(w, i)
            => LET changed == ChangedAddresses(originalVirtualMachine[w],
                                               virtualMachine[w])
               IN  /\ Count(log[w],
                            "UpdateMacAddressesForVirtualMachine") = 1
                   /\ AllocatorCalls(w) = 1
                   /\ Stamps(w) = 1
                   /\ resp[w].Allowed <=> ~AllocatorFailed(w)
                   /\ resp[w].Allowed
                      => resp[w].Patches =
                           <<TimestampPatch(w)>> \o
                           [k \in 1..Len(changed) |->
                              NewPatch("replace",
                                InterfacePath(changed[k] - 1),
                                JString(virtualMachine[w].Spec.Interfaces
                                          .elems[changed[k]].MacAddress))]
                   /\ ~resp[w].Allowed => Len(resp[w].Patches) = 0

\* the second of two interfaces lost its address in the incoming version,
\* the call gave it one, and the response carries the two operations
C8_Witness ==
    \E w \in DOMAIN pc :
        /\ UpdatesOneAddress(w, 2)
        /\ SameMetadata(previousVirtualMachine[w], req[w].Object)
        /\ req[w].Object.Spec.Interfaces.elems[2].MacAddress = ""
        /\ resp[w].Allowed
        /\ Len(resp[w].Patches) = 2
        /\ resp[w].Patches[1] = TimestampPatch(w)
        /\ resp[w].Patches[2] =
             NewPatch("replace", InterfacePath(1), JString(PoolMac(2)))

(***************************************************************************)
(* C9.  An allowed response for a virtual machine whose working copy       *)
(* carries a deletion timestamp holds no operation at the annotations path *)
(* and none at the address of an interface.                                *)
(***************************************************************************)
C9_DeletionSuppressesPatches ==
    \A w \in DOMAIN pc :
        (/\ pc[w] = "done"
         /\ req[w].Kind = "VirtualMachine"
         /\ resp[w].Allowed
         /\ virtualMachine[w].DeletionTimestamp)
        => /\ PatchesAt(resp[w].Patches, AnnotationsPath) = {}
           /\ InterfacePatchesOf(resp[w].Patches) = {}

\* the timestamp was written and an address changed during the request
C9_Witness ==
    \E w \in DOMAIN pc :
        /\ ReturnedVM(w, "UPDATE")
        /\ resp[w].Allowed
        /\ virtualMachine[w].DeletionTimestamp
        /\ TimestampOf(virtualMachine[w])
             # TimestampOf(originalVirtualMachine[w])
        /\ ChangedAddresses(originalVirtualMachine[w], virtualMachine[w])
             # <<>>
        /\ Len(resp[w].Patches) = 0

(***************************************************************************)
(* C10.  patchVMChanges emits the finalizer operations at the finalizers   *)
(* path whenever the finalizer lists of the snapshot and of the working    *)
(* copy differ, also when the working copy carries a deletion timestamp.   *)
(* (The finalizer diff sits inside the deletion guard of line 103, so      *)
(* nothing is emitted.)                                                    *)
(***************************************************************************)
C10_DeletionKeepsFinalizerPatches ==
    \A w \in DOMAIN pc :
        (/\ PatchedVM(w)
         /\ virtualMachine[w].DeletionTimestamp
         /\ MarshalSlice(originalVirtualMachine[w].Finalizers)
              # MarshalSlice(virtualMachine[w].Finalizers))
        => PatchesAt(resp[w].Patches, FinalizersPath) # {}

(***************************************************************************)
(* C11.  addFinalizer run twice in a row on one object.                    *)
(***************************************************************************)
\* how often the reserved token stands in a finalizer list
TokenCount(finalizers) ==
    Count(finalizers.elems, RuntimeObjectFinalizerName)

(***************************************************************************)
(* C11 as claimed: after the two runs the reserved token stands in the     *)
(* finalizer list exactly once, whatever the list was.                     *)
(***************************************************************************)
C11_TwiceLeavesTokenOnce ==
    \A w \in DOMAIN pc :
        pc[w] = "guarded"
        => TokenCount(virtualMachine[w].Finalizers) = 1

(***************************************************************************)
(* C11 as amended: the first run appends the token at the end of a list    *)
(* that does not hold it and leaves alone a list that holds it, once or    *)
(* several times (so the token stands in the list as often as before, and  *)
(* once if it did not); the second run changes nothing.                    *)
(***************************************************************************)
C11_TwiceAddsTokenAtMostOnce ==
    /\ [](\A w \in DOMAIN pc :
            pc[w] \in {"guardAgain", "guarded"}
            => LET before == originalVirtualMachine[w].Finalizers
                   after == virtualMachine[w].Finalizers
               IN  /\ TokenCount(before) > 0 => after = before
                   /\ TokenCount(before) = 0
                      => /\ ~after.nil
                         /\ after.elems =
                              Append(before.elems,
                                     RuntimeObjectFinalizerName)
                   /\ [virtualMachine[w] EXCEPT !.Finalizers = before]
                        = originalVirtualMachine[w])
    /\ [][\A w \in DOMAIN pc :
            pc[w] = "guardAgain" => virtualMachine'[w] = virtualMachine[w]]_vars

\* the two runs on a list that held only a finalizer of the caller's
C11_Witness ==
    \E w \in DOMAIN pc :
        /\ pc[w] = "guarded"
        /\ log[w] = <<"addFinalizer", "addFinalizer">>
        /\ originalVirtualMachine[w].Finalizers = Slice(<<OtherFinalizer>>)
        /\ virtualMachine[w].Finalizers
             = Slice(<<OtherFinalizer, RuntimeObjectFinalizerName>>)

(***************************************************************************)
(* C12.  A pod admitted without annotations.                               *)
(***************************************************************************)
\* the handler of w returned from a decoded request of a pod that came
\* without annotations
ReturnedBarePod(w) ==
    /\ pc[w] = "done"
    /\ req[w].Kind = "Pod"
    /\ req[w].Decodable
    /\ req[w].Object.Annotations.nil

\* the operation that brings the networks annotation of the working copy
NetworksPatch(w) ==
    NewPatch("add", AnnotationsPath,
             JObject(NetworksAnnotation,
                     MapGet(pod[w].Annotations, NetworksAnnotation)))

AgreeOnWhitelist(original, current) ==
    /\ TimestampOf(original) = TimestampOf(current)
    /\ Len(original.Spec.Interfaces.elems)
         = Len(current.Spec.Interfaces.elems)
    /\ \A j \in 1..Len(current.Spec.Interfaces.elems) :
          original.Spec.Interfaces.elems[j].MacAddress
            = current.Spec.Interfaces.elems[j].MacAddress
    /\ original.Finalizers = current.Finalizers

CreateSawNotFound(w) ==
    /\ req[w] # Unset
    /\ req[w].Operation = "CREATE"
    /\ getResult[w] = "NotFound"
    /\ ~req[w].Object.DeletionTimestamp

C14_CreateHandlersDoNotSerialise ==
    \A w \in DOMAIN pc :
        CreateSawNotFound(w)
        => \/ /\ pc[w] = "allocateNew"
              /\ Count(log[w], "AllocateVirtualMachineMac") = 0
           \/ /\ pc[w] = "done"
              /\ Count(log[w], "AllocateVirtualMachineMac") = 1

\* two handlers for the same namespace and name both saw not-found and
\* both called the allocator, with success
C14_Witness ==
    \E w \in DOMAIN pc, v \in DOMAIN pc :
        /\ w # v
        /\ CreateSawNotFound(w) /\ CreateSawNotFound(v)
        /\ pc[w] = "done" /\ pc[v] = "done"
        /\ virtualMachine[w].Name = virtualMachine[v].Name
        /\ virtualMachine[w].Namespace = virtualMachine[v].Namespace
        /\ Count(log[w], "AllocateVirtualMachineMac") = 1
        /\ Count(log[v], "AllocateVirtualMachineMac") = 1
        /\ resp[w].Allowed /\ resp[v].Allowed

(***************************************************************************)
(* C15.  In every patch list patchVMChanges returns the operations stand   *)
(* in a fixed order: the annotation operation, then the operations at the  *)
(* interface addresses by ascending index, then the finalizer operations.  *)
(***************************************************************************)
\* the place of a path in that order
PathRank(path) ==
    IF path = AnnotationsPath THEN 0
    ELSE IF path = FinalizersPath THEN MaxIfaces + 1
    ELSE 1 + CHOOSE i \in 0..(MaxIfaces - 1) : InterfacePath(i) = path

C15_PatchesInFixedOrder ==
    \A w \in DOMAIN pc :
        PatchedVM(w)
        => LET patches == resp[w].Patches
           IN  /\ \A a \in 1..Len(patches) :
                     \/ patches[a].Path \in {AnnotationsPath, FinalizersPath}
                     \/ \E i \in 0..(MaxIfaces - 1) :
                            patches[a].Path = InterfacePath(i)
               /\ \A a \in 1..Len(patches), b \in 1..Len(patches) :
                     a < b
                     => /\ PathRank(patches[a].Path)
                             <= PathRank(patches[b].Path)
                        /\ PathRank(patches[a].Path)
                              = PathRank(patches[b].Path)
                           => patches[a].Path = FinalizersPath

\* a patch list with the annotation operation, the operations of two
\* interfaces and a finalizer operation
C15_Witness ==
    \E w \in DOMAIN pc :
        /\ PatchedVM(w)
        /\ Len(resp[w].Patches) = 4
        /\ resp[w].Patches[1].Path = AnnotationsPath
        /\ resp[w].Patches[2].Path = InterfacePath(0)
        /\ resp[w].Patches[3].Path = InterfacePath(1)
        /\ resp[w].Patches[4].Path = FinalizersPath

(***************************************************************************)
(* C16.  No two operations of a patch list that patchVMChanges returns     *)
(* carry the same path.  (patchChange writes the one path over every       *)
(* operation CreatePatch returns and merges none of them: finalizer lists  *)
(* that differ in two elements give two operations at the finalizers       *)
(* path.)                                                                  *)
(***************************************************************************)
C16_OneOperationPerPath ==
    \A w \in DOMAIN pc :
        PatchedVM(w)
        => \A a \in 1..Len(resp[w].Patches), b \in 1..Len(resp[w].Patches) :
              a # b => resp[w].Patches[a].Path # resp[w].Patches[b].Path

(***************************************************************************)
(* C17.  At every step of a virtual machine request the finalizer list of  *)
(* the working copy is the list of the snapshot, but after addFinalizer    *)
(* ran: that happens only in a Create request whose Get returned not-found *)
(* for an object without deletion timestamp and whose                      *)
(* AllocateVirtualMachineMac succeeded, and then the list is the           *)
(* snapshot's with the reserved token appended at the end if it was not in *)
(* it, and the snapshot's if it was.  Nothing is removed or reordered.     *)
(***************************************************************************)
C17_FinalizersOnlyAppendedOnCreate ==
    \A w \in DOMAIN pc :
        (virtualMachine[w] # Unset /\ req[w] # Unset)
        => LET before == originalVirtualMachine[w].Finalizers
               after == virtualMachine[w].Finalizers
               guarded == Count(log[w], "addFinalizer") > 0
           IN  /\ ~guarded => after = before
               /\ guarded
                  => /\ req[w].Operation = "CREATE"
                     /\ getResult[w] = "NotFound"
                     /\ ~req[w].Object.DeletionTimestamp
                     /\ Count(log[w], "AllocateVirtualMachineMac") = 1
                     /\ ~AllocatorFailed(w)
                     /\ TokenCount(before) > 0 => after = before
                     /\ TokenCount(before) = 0
                        => /\ ~after.nil
                           /\ after.elems =
                                Append(before.elems,
                                       RuntimeObjectFinalizerName)
               /\ (CreatesNew(w) /\ ~AllocatorFailed(w)) => guarded

\* the token is appended behind two finalizers of the caller's
C17_Witness ==
    \E w \in DOMAIN pc :
        /\ CreatesNew(w)
        /\ Count(log[w], "addFinalizer") = 1
        /\ originalVirtualMachine[w].Finalizers
             = Slice(<<OtherFinalizer, OtherFinalizer>>)
        /\ virtualMachine[w].Finalizers
             = Slice(<<OtherFinalizer, OtherFinalizer,
                       RuntimeObjectFinalizerName>>)

(***************************************************************************)
(* C18.  The operations of an allowed response, applied in order to the    *)
(* snapshot as RFC 6902 applies them, give the working copy back on the    *)
(* annotations, on the address of every interface and on the finalizer     *)
(* list.  (An add at /metadata/annotations sets the whole member to the    *)
(* one-entry map of the operation, so the annotations of the caller are    *)
(* lost; an add at /metadata/finalizers whose value is one element sets    *)
(* the member to that string.)                                             *)
(***************************************************************************)
\* the document of the paths the handlers patch: the annotations (their
\* entries), the interface addresses and the finalizers member as JSON
PatchedDocument(annotations, addresses, finalizers) ==
    [annotations |-> annotations, addresses |-> addresses,
     finalizers |-> finalizers]

DocumentOfVM(vm) ==
    PatchedDocument(vm.Annotations.kv,
                    [j \in 1..Len(vm.Spec.Interfaces.elems) |->
                        vm.Spec.Interfaces.elems[j].MacAddress],
                    MarshalSlice(vm.Finalizers))

DocumentOfPod(p) == PatchedDocument(p.Annotations.kv, <<>>, JNull)

\* RFC 6902 on one operation: add and replace at a member of an object set
\* the member to the value of the operation, remove takes the member away
ApplyOperation(doc, operation) ==
    IF operation.Path = AnnotationsPath
    THEN [doc EXCEPT !.annotations =
            IF operation.Operation = "remove" THEN EmptyKV
            ELSE [k \in {operation.Value.key} |-> operation.Value.str]]
    ELSE IF operation.Path = FinalizersPath
    THEN [doc EXCEPT !.finalizers =
            IF operation.Operation = "remove" THEN JNull
            ELSE operation.Value]
    ELSE [doc EXCEPT !.addresses =
            [j \in 1..Len(@) |->
                IF operation.Path = InterfacePath(j - 1)
                THEN IF operation.Operation = "remove" THEN ""
                     ELSE operation.Value.str
                ELSE @[j]]]

RECURSIVE ApplyPatches(_, _)
ApplyPatches(doc, patches) ==
    IF patches = <<>> THEN doc
    ELSE ApplyPatches(ApplyOperation(doc, Head(patches)), Tail(patches))

C18_PatchRoundTrip ==
    \A w \in DOMAIN pc :
        (pc[w] = "done" /\ req[w].Decodable /\ resp[w].Allowed)
        => IF req[w].Kind = "Pod"
           THEN ApplyPatches(DocumentOfPod(originalPod[w]), resp[w].Patches)
                  = DocumentOfPod(pod[w])
           ELSE ~virtualMachine[w].DeletionTimestamp
                => ApplyPatches(DocumentOfVM(originalVirtualMachine[w]),
                                resp[w].Patches)
                     = DocumentOfVM(virtualMachine[w])

(***************************************************************************)
(* C19.  Whenever patchVMChanges is called, the interface list of the      *)
(* snapshot is as long as that of the working copy, so the index           *)
(* expression of line 112 stays in range and no handler panics: no step    *)
(* between the DeepCopy of line 66 and the call adds or removes an         *)
(* interface.                                                              *)
(***************************************************************************)
C19_InterfaceIndexInRange ==
    \A w \in DOMAIN pc :
        /\ pc[w] # "panic"
        /\ (virtualMachine[w] # Unset /\ originalVirtualMachine[w] # Unset)
           => /\ Len(originalVirtualMachine[w].Spec.Interfaces.elems)
                   >= Len(virtualMachine[w].Spec.Interfaces.elems)
              /\ ~patchVMChangesPanics(originalVirtualMachine[w],
                                       virtualMachine[w])

\* patchVMChanges ran its loop over two interfaces after an allocator
\* wrote their addresses
C19_Witness ==
    \E w \in DOMAIN pc :
        /\ pc[w] = "done"
        /\ req[w].Kind = "VirtualMachine"
        /\ resp[w].Allowed
        /\ AllocatorCalls(w) = 1
        /\ ~virtualMachine[w].DeletionTimestamp
        /\ Len(virtualMachine[w].Spec.Interfaces.elems) = 2
        /\ Len(originalVirtualMachine[w].Spec.Interfaces.elems) = 2
        /\ Cardinality(InterfacePatchesOf(resp[w].Patches)) = 2

(***************************************************************************)
(* C20.  A decoded virtual machine request whose operation is neither      *)
(* Create nor Update is answered at once: no Get, no allocator call, no    *)
(* timestamp, no finalizer, and an allowed response whose patch list is    *)
(* empty.                                                                  *)
(***************************************************************************)
C20_OtherOperationsInert ==
    \A w \in DOMAIN pc :
        (/\ req[w] # Unset
         /\ req[w].Kind = "VirtualMachine"
         /\ req[w].Decodable
         /\ req[w].Operation \notin {"CREATE", "UPDATE"})
        => /\ pc[w] = "done"
           /\ log[w] = <<>>
           /\ getResult[w] = "none"
           /\ transactionTimestamp[w] = NoTimestamp
           /\ TimestampOf(virtualMachine[w])
                = TimestampOf(originalVirtualMachine[w])
           /\ virtualMachine[w].Finalizers
                = originalVirtualMachine[w].Finalizers
           /\ virtualMachine[w].Spec = originalVirtualMachine[w].Spec
           /\ resp[w].Allowed
           /\ resp[w].Patches = <<>>

\* a Delete request for an object with two interfaces, without
\* annotations, finalizers or namespace
C20_Witness ==
    \E w \in DOMAIN pc :
        /\ ReturnedVM(w, "DELETE")
        /\ req[w].Object.Annotations.nil
        /\ req[w].Object.Finalizers.nil
        /\ req[w].Object.Namespace = ""
        /\ ~req[w].Object.DeletionTimestamp
        /\ Len(req[w].Object.Spec.Interfaces.elems) = 2
        /\ virtualMachine[w].Namespace = RequestNamespace
        /\ resp[w].Allowed
        /\ resp[w].Patches = <<>>

=============================================================================
